---- MODULE Spec2Model ----
(***************************************************************************)
(* Model of src/src/countdown-timer.js (class CountdownTimer).             *)
(*                                                                         *)
(* Conventions                                                             *)
(*  - An instant of the wall clock is a record [day, ms]: whole days since *)
(*    1970-01-01 and milliseconds within that day.  A JavaScript timestamp *)
(*    is day * msPerDay + ms; it is kept in two limbs because the values   *)
(*    exceed the integer range of the model checker.                       *)
(*  - A difference of two timestamps is [neg, days, ms]: its sign and the  *)
(*    two limbs of its magnitude.                                          *)
(*  - JavaScript array indices 0..5 are the sequence indices 1..6 here.    *)
(*  - A value returned by pad() is [t |-> "num", n |-> n] for the number n *)
(*    and [t |-> "str", n |-> n] for the string "0" followed by n.         *)
(*  - The children of a timer element are a sequence of nodes: Sep is a    *)
(*    separator text node and Node(g, u) is the span of unit u that the    *)
(*    g-th call of createElements on the element made.  A closure of       *)
(*    startTimer reads the element with its own spans as 1..6 (Closure).   *)
(*  - createTimer, createElements, startTimer and updateDisplay are        *)
(*    methods of the instance: beside the constructor and the interval     *)
(*    callbacks, the owner of the instance calls them (at most MaxCalls    *)
(*    times in a behaviour).                                               *)
(***************************************************************************)
EXTENDS Integers, Sequences, FiniteSets, TLC

\* ------------------------------------------------------------- constants
msPerSecond == 1000
msPerMinute == 60 * msPerSecond
msPerHour == 60 * msPerMinute
msPerDay == 24 * msPerHour

\* The six interval spans, in the order of the `intervals` array.
years == 1
weeks == 2
days == 3
hours == 4
minutes == 5
seconds == 6
intervals == <<years, weeks, days, hours, minutes, seconds>>

\* The separator text node created by document.createTextNode.
Sep == 0

\* `let highestNonzero;` : the value before any assignment.
undefined == 0

\* ------------------------------------------------------------ wall clock
At(d, m) == [day |-> d, ms |-> m]

\* a < b on timestamps.
Before(a, b) == a.day < b.day \/ (a.day = b.day /\ a.ms < b.ms)

\* time - now, as sign and magnitude.
Minus(time, now) ==
  LET dd == time.day - now.day
      dm == time.ms - now.ms
      neg == dd < 0 \/ (dd = 0 /\ dm < 0)
      ad == IF neg THEN -dd ELSE dd
      am == IF neg THEN -dm ELSE dm
  IN  IF am >= 0 THEN [neg |-> neg, days |-> ad, ms |-> am]
      ELSE [neg |-> neg, days |-> ad - 1, ms |-> am + msPerDay]

\* 0 >= diff
LeqZero(diff) == diff.neg \/ (diff.days = 0 /\ diff.ms = 0)

\* isLeapYear( year )
IsLeapYear(year) == IF year % 100 = 0 THEN year % 400 = 0 ELSE year % 4 = 0

\* Date.prototype.getFullYear of a timestamp, host time zone UTC.
RECURSIVE YearFrom(_, _)
YearFrom(d, y) ==
  LET len == IF IsLeapYear(y) THEN 366 ELSE 365
  IN  IF d < len THEN y ELSE YearFrom(d - len, y + 1)

GetFullYear(t) == YearFrom(t.day, 1970)

\* ------------------------------------------------------------ pad values
Num(n) == [t |-> "num", n |-> n]
Str(n) == [t |-> "str", n |-> n]

\* pad( n )
Pad(settings, n) ==
  IF settings.padValues
  THEN (IF 10 > n THEN Str(n) ELSE Num(n))
  ELSE Num(n)

\* a < v with the abstract relational comparison of JavaScript: a string
\* is converted to a number, and "0-1" converts to NaN (every comparison
\* with NaN is false).
Less(a, v) ==
  IF v.t = "num" THEN a < v.n ELSE (v.n >= 0 /\ a < v.n)

\* 0 === v : strict equality, a string never equals the number 0.
StrictZero(v) == v.t = "num" /\ v.n = 0

\* parseInt( v ): "05" parses to 5, "0-1" parses to 0.
ParseInt(v) == IF v.t = "num" THEN v.n ELSE (IF v.n >= 0 THEN v.n ELSE 0)

\* ------------------------------------------------------------ formatDiff
\* The year-extraction loop: returns the years counted and the days left.
RECURSIVE YearLoop(_, _, _, _, _)
YearLoop(y, d, yearToCheck, finalYear, isNegative) ==
  IF yearToCheck # finalYear /\ 365 <= d
  THEN YearLoop(y + 1,
                IF IsLeapYear(yearToCheck) THEN d - 366 ELSE d - 365,
                IF isNegative THEN yearToCheck - 1 ELSE yearToCheck + 1,
                finalYear, isNegative)
  ELSE [years |-> y, days |-> d]

\* The week-extraction loop.
RECURSIVE WeekLoop(_, _, _)
WeekLoop(y, w, d) ==
  IF 7 <= d
  THEN (IF 52 <= w + 1 THEN WeekLoop(y + 1, 0, d - 7)
                       ELSE WeekLoop(y, w + 1, d - 7))
  ELSE [years |-> y, weeks |-> w, days |-> d]

\* The array returned by formatDiff: the six values, padded.
Padded(settings, wl, h, m, s) ==
  << Pad(settings, wl.years), Pad(settings, wl.weeks), Pad(settings, wl.days),
     Pad(settings, h), Pad(settings, m), Pad(settings, s) >>

\* A week loop that never runs.
WeeksOfMutant(yl) == [years |-> yl.years, weeks |-> 0, days |-> yl.days]

\* The week loop run on the result yl of the year loop.
WeeksOf(yl) == WeekLoop(yl.years, 0, yl.days)

\* formatDiff( milliseconds, time ); `now` is the clock read by new Date().
FormatDiff(settings, milliseconds, time, now) ==
  Padded(settings,
         WeeksOf(YearLoop(0, milliseconds.days, GetFullYear(now),
                          GetFullYear(time), milliseconds.neg)),
         (milliseconds.ms % msPerDay) \div msPerHour,
         (milliseconds.ms % msPerHour) \div msPerMinute,
         (milliseconds.ms % msPerMinute) \div msPerSecond)

\* ------------------------------------------------------------ DOM access
\* timer.contains( node ) for a child of the timer element.
Contains(children, node) == \E k \in 1..Len(children) : children[k] = node

\* Position of a span among the children (spans occur at most once).
IndexOf(children, node) == CHOOSE k \in 1..Len(children) : children[k] = node

RemoveAt(children, k) ==
  SubSeq(children, 1, k - 1) \o SubSeq(children, k + 1, Len(children))

\* timer.removeChild( span )
RemoveChild(children, node) == RemoveAt(children, IndexOf(children, node))

\* node.nextSibling is not null (a detached node has no sibling).
HasNextSibling(children, node) ==
  Contains(children, node) /\ IndexOf(children, node) < Len(children)

\* node.previousSibling is not null.
HasPreviousSibling(children, node) ==
  Contains(children, node) /\ IndexOf(children, node) > 1

\* timer.appendChild( span ) for a span that is not a child yet.
AppendChild(children, node) == Append(children, node)

\* -------------------------------------------------------- createElements
\* Spans created without the aria-hidden attribute on seconds.
InitialAriaHiddenMutant == [i \in 1..6 |-> "null"]

\* The aria-hidden attribute of the six new spans: only seconds has one.
InitialAriaHidden ==
  [i \in 1..6 |-> IF i = seconds THEN "true" ELSE "null"]

\* The fragment: every allowed span, followed by a separator when a less
\* significant span is allowed too.
RECURSIVE Fragment(_, _)
Fragment(settings, i) ==
  IF i > 6 THEN << >>
  ELSE (IF settings.allowed[i]
        THEN <<intervals[i]>> \o (IF \E j \in (i + 1)..6 : settings.allowed[j]
                       THEN <<Sep>> ELSE << >>)
        ELSE << >>) \o Fragment(settings, i + 1)

\* --------------------------------------------------------- updateDisplay
NoText == [shown |-> FALSE, value |-> Num(0), units |-> "none"]

\* updateDisplay( timer, interval, value, label ): the text content and
\* aria-label become "<value> <units>".
UpdateDisplay(children, text, interval, value) ==
  IF Contains(children, interval)
  THEN [text EXCEPT ![interval] =
          [shown |-> TRUE, value |-> value,
           units |-> IF Less(1, value) \/ StrictZero(value)
                     THEN "plural" ELSE "singular"]]
  ELSE text

RECURSIVE UpdateAll(_, _, _, _)
\* The six consecutive updateDisplay calls, for the values vals.
UpdateAll(children, text, vals, i) ==
  IF i > 6 THEN text
  ELSE UpdateAll(children, UpdateDisplay(children, text, intervals[i], vals[i]),
                 vals, i + 1)

\* ------------------------------------------------------------ updateTime
\* parsedDiff.find( ... ): the scan for the highest non-zero value, which
\* hides and removes the leading zero-value intervals.  st is the state of
\* the scan: the children, the aria-hidden attributes and highestNonzero.
RECURSIVE Find(_, _, _, _)
Find(settings, parsedDiff, index, st) ==
  IF index > 6 THEN st
  ELSE IF Less(0, parsedDiff[index])
  THEN [st EXCEPT !.highestNonzero = index]
  ELSE IF st.highestNonzero = undefined /\ intervals[index] # seconds
  THEN LET node == intervals[index]
           hid == [st.ariaHidden EXCEPT ![node] = "true"]
           ch  == IF ~settings.showZeroes /\ Contains(st.children, node)
                  THEN LET c1 == IF HasNextSibling(st.children, node)
                                 THEN RemoveAt(st.children,
                                               IndexOf(st.children, node) + 1)
                                 ELSE st.children
                       IN  RemoveChild(c1, node)
                  ELSE st.children
       IN  Find(settings, parsedDiff, index + 1,
                [st EXCEPT !.ariaHidden = hid, !.children = ch])
  ELSE Find(settings, parsedDiff, index + 1, st)

\* The aria-live attribute set after the scan.
AriaLive(parsedDiff, highestNonzero) ==
  IF highestNonzero = Len(intervals) THEN "polite"
  ELSE IF StrictZero(parsedDiff[6]) THEN "polite"
  ELSE "off"

\* aria-hidden after the scan: seconds are unhidden when they are the
\* highest non-zero interval.
Unhide(ariaHidden, highestNonzero) ==
  IF highestNonzero = Len(intervals)
  THEN [ariaHidden EXCEPT ![intervals[highestNonzero]] = "false"]
  ELSE ariaHidden

\* intervals.forEach( ... ), run when highestNonzero is defined.
RECURSIVE ForEach(_, _, _, _)
ForEach(settings, highestNonzero, index, children) ==
  IF index > 6 THEN children
  ELSE LET interval == intervals[index]
           c1 == IF settings.compact /\ HasPreviousSibling(children, interval)
                 THEN RemoveAt(children, IndexOf(children, interval) - 1)
                 ELSE children
           c2 == IF highestNonzero = index
                 THEN (IF ~Contains(c1, interval)
                       THEN AppendChild(c1, interval) ELSE c1)
                 ELSE IF settings.compact /\ Contains(c1, interval)
                 THEN RemoveChild(c1, interval)
                 ELSE c1
       IN  ForEach(settings, highestNonzero, index + 1, c2)

\* The children after the scan and the forEach.
Render(settings, highestNonzero, children) ==
  IF undefined # highestNonzero
  THEN ForEach(settings, highestNonzero, 1, children)
  ELSE children

\* The values shown by the terminal branch: the number 0 six times.
TerminalValues(parsedDiff) == [i \in 1..6 |-> Num(0)]

\* window.clearInterval( repeat )
ClearInterval(repeat) == "cleared"

\* An entry of the log of a timer: a recomputation or a hook invocation.
Event(hook, isNegative, values) ==
  [hook |-> hook, isNegative |-> isNegative, values |-> values]

\* Invoke a hook when settings hold one.
Call(settings, log, hook, isNegative, values) ==
  IF settings.hooks[hook] THEN Append(log, Event(hook, isNegative, values))
  ELSE log

\* The end of the terminal branch, after the zeroes are shown: the read of
\* `repeat` throws while the const is not initialised yet; otherwise the
\* interval is cleared and onEnd invoked.
Stop(settings, tm) ==
  IF tm.repeat = "uninitialized"
  THEN [tm |-> tm, threw |-> TRUE]
  ELSE [tm |-> [tm EXCEPT
                  !.repeat = ClearInterval(tm.repeat),
                  !.log = Call(settings, tm.log, "onEnd", FALSE, << >>)],
        threw |-> FALSE]

\* A terminal test that ignores allowNegative.
IsTerminalMutant(settings, diff) == LeqZero(diff)

\* 0 >= diff && ! this.settings.allowNegative
IsTerminal(settings, diff) == LeqZero(diff) /\ ~settings.allowNegative

\* The second half of updateTime: the terminal branch, or the display of
\* the breakdown and onTick.
Display(settings, tm, diff, parsedDiff) ==
  IF IsTerminal(settings, diff)
  THEN Stop(settings,
            [tm EXCEPT !.text = UpdateAll(tm.children, tm.text,
                                          TerminalValues(parsedDiff), 1)])
  ELSE [tm |-> [tm EXCEPT
                  !.text = UpdateAll(tm.children, tm.text, parsedDiff, 1),
                  !.log = Call(settings, tm.log, "onTick", diff.neg,
                               [i \in 1..6 |-> ParseInt(parsedDiff[i])])],
        threw |-> FALSE]

\* The first half of updateTime, given the result f of the scan: the
\* aria attributes and the children.
Resolve(settings, tm, now, diff, parsedDiff, f) ==
  [tm EXCEPT
     !.children = Render(settings, f.highestNonzero, f.children),
     !.ariaHidden = Unhide(f.ariaHidden, f.highestNonzero),
     !.ariaLive = AriaLive(parsedDiff, f.highestNonzero),
     !.parsedDiff = parsedDiff,
     !.highestNonzero = f.highestNonzero,
     !.diff = diff,
     !.lastNow = now,
     !.runs = tm.runs + 1,
     !.log = Append(tm.log, Event("updateTime", diff.neg, << >>))]

\* updateTime once diff and parsedDiff are computed.
Recompute(settings, tm, now, diff, parsedDiff) ==
  Display(settings,
          Resolve(settings, tm, now, diff, parsedDiff,
                  Find(settings, parsedDiff, 1,
                       [children |-> tm.children, ariaHidden |-> tm.ariaHidden,
                        highestNonzero |-> undefined])),
          diff, parsedDiff)

\* updateTime once diff is computed: formatDiff reads the clock itself, and
\* clock is the value it reads.
WithDiff(settings, tm, now, clock, diff) ==
  Recompute(settings, tm, now, diff, FormatDiff(settings, diff, tm.time, clock))

\* One run of updateTime.  The clock is read twice: now is the value read by
\* updateTime, clock the value read later by formatDiff.  Result: the timer
\* and whether the run threw (the read of `repeat` before its declaration
\* was reached).
UpdateTime(settings, tm, now, clock) ==
  WithDiff(settings, tm, now, clock, Minus(tm.time, now))

\* ------------------------------------------------- elements and closures
\* A matched element before createTimer has touched it.  datetime is its
\* attribute: valid tells whether new Date( datetime ).getTime() is a
\* number, and at is that number.  ariaHidden and text hold the attributes
\* of the spans created for the element, six per call of createElements;
\* sessions holds the closures of the calls of startTimer on the element;
\* log records its recomputations and the hooks invoked with it.
Element(datetime) ==
  [datetime |-> datetime, created |-> FALSE, children |-> << >>,
   ariaLive |-> "null", ariaHidden |-> << >>, text |-> << >>,
   sessions |-> << >>, log |-> << >>]

\* The closure of a call startTimer( timer, time, intervals ) before its
\* first run of updateTime: spans is the number of the createElements call
\* that made the six spans of intervals, and repeat is the const declared
\* after the first run.
Session(time, spans) ==
  [time |-> time, spans |-> spans, parsedDiff |-> << >>,
   highestNonzero |-> undefined,
   diff |-> [neg |-> FALSE, days |-> 0, ms |-> 0], lastNow |-> At(0, 0),
   runs |-> 0, repeat |-> "uninitialized"]

\* The number of createElements calls made on the element.
Spans(el) == Len(el.ariaHidden) \div 6

\* The child of the element that is span u of the createElements call g.
Node(g, u) == 6 * (g - 1) + u

\* The children as the closure with the spans of call g names them: its own
\* spans are intervals[ 0..5 ], here 1..6, and the spans of the first call
\* take their place.  The renaming is its own inverse.
SwapNode(n, g) ==
  IF n = Sep \/ g = 1 THEN n
  ELSE IF n \in 1..6 THEN Node(g, n)
  ELSE IF n \in Node(g, 1)..Node(g, 6) THEN n - Node(g, 0)
  ELSE n

Swap(children, g) == [j \in 1..Len(children) |-> SwapNode(children[j], g)]

\* What the closure s of the element el reads and writes: the element, its
\* own six spans and its own variables.
Closure(el, s) ==
  [datetime |-> el.datetime, created |-> el.created, time |-> s.time,
   children |-> Swap(el.children, s.spans),
   ariaHidden |-> [u \in 1..6 |-> el.ariaHidden[Node(s.spans, u)]],
   ariaLive |-> el.ariaLive,
   text |-> [u \in 1..6 |-> el.text[Node(s.spans, u)]],
   parsedDiff |-> s.parsedDiff, highestNonzero |-> s.highestNonzero,
   diff |-> s.diff, lastNow |-> s.lastNow, runs |-> s.runs,
   repeat |-> s.repeat, log |-> el.log]

\* The attributes of the spans of the element after the closure with the
\* spans g has written own to its six spans.
Written(attributes, g, own) ==
  [n \in 1..Len(attributes) |->
     IF n \in Node(g, 1)..Node(g, 6) THEN own[n - Node(g, 0)]
     ELSE attributes[n]]

\* The element after closure k has run and left tm.
Store(el, k, tm) ==
  [el EXCEPT
     !.children = Swap(tm.children, el.sessions[k].spans),
     !.ariaHidden = Written(@, el.sessions[k].spans, tm.ariaHidden),
     !.ariaLive = tm.ariaLive,
     !.text = Written(@, el.sessions[k].spans, tm.text),
     !.log = tm.log,
     !.sessions[k] =
        [time |-> tm.time, spans |-> el.sessions[k].spans,
         parsedDiff |-> tm.parsedDiff, highestNonzero |-> tm.highestNonzero,
         diff |-> tm.diff, lastNow |-> tm.lastNow, runs |-> tm.runs,
         repeat |-> tm.repeat]]

\* The element after a run r of updateTime in closure k.
Stored(el, k, r) == [tm |-> Store(el, k, r.tm), threw |-> r.threw]

\* One run of updateTime of closure k of the element: now is the clock value
\* updateTime reads and clock the one formatDiff reads.
Run(settings, el, k, now, clock) ==
  Stored(el, k, UpdateTime(settings, Closure(el, el.sessions[k]), now, clock))

\* The recomputations run on the element, by all its closures.
RECURSIVE RunsOf(_, _)
RunsOf(sessions, k) ==
  IF k > Len(sessions) THEN 0 ELSE sessions[k].runs + RunsOf(sessions, k + 1)

Runs(el) == RunsOf(el.sessions, 1)

\* ------------------------------------------------------------- startTimer
\* The end of startTimer, given the result r of its call of updateTime:
\* setInterval is reached when that call returned.
Scheduled(r) ==
  [tm |-> IF r.threw THEN r.tm
          ELSE [r.tm EXCEPT !.sessions[Len(r.tm.sessions)].repeat = "scheduled"],
   threw |-> r.threw]

\* startTimer( timer, time, intervals ), intervals being the spans of the
\* createElements call spans: a new closure, its first run of updateTime
\* with the clock values reads.update and reads.format, then setInterval.
StartTimer(settings, el, time, spans, reads) ==
  Scheduled(Run(settings,
                [el EXCEPT !.sessions = Append(@, Session(time, spans))],
                Len(el.sessions) + 1, reads.update, reads.format))

\* --------------------------------------------------------- createElements
\* The element with six new spans and the fragment appended to its
\* children.
WithSpans(settings, el) ==
  [el EXCEPT
     !.children = @ \o Swap(Fragment(settings, 1), Spans(el) + 1),
     !.ariaHidden = @ \o InitialAriaHidden,
     !.text = @ \o [i \in 1..6 |-> NoText]]

\* createElements( timer, time )
CreateElements(settings, el, time, reads) ==
  StartTimer(settings, WithSpans(settings, el), time, Spans(el) + 1, reads)

\* ------------------------------------------------------------ createTimer
\* ! time || isNaN( time )
NoTime(datetime) == ~datetime.valid \/ datetime.at = At(0, 0)

\* The target time: the current time replaces a missing or invalid one.
TimeOf(el, now) == IF NoTime(el.datetime) THEN now ELSE el.datetime.at

\* The element when createTimer calls createElements: its attributes set,
\* its content cleared and onCreate invoked.
Prepared(settings, el) ==
  [el EXCEPT
     !.created = TRUE,
     !.children = << >>,
     !.log = Call(settings, @, "onCreate", FALSE, << >>)]

\* The result r of createElements, with the number of console.error calls
\* of createTimer for the element el.
Reported(r, el) ==
  [tm |-> r.tm, threw |-> r.threw,
   errors |-> IF NoTime(el.datetime) THEN 1 ELSE 0]

\* createTimer( timer ).  reads holds the clock values of the three reads of
\* the clock: create by createTimer for an element without a valid date,
\* update by updateTime and format by formatDiff.  Result: the element,
\* whether an exception left the call and the number of console.error calls.
CreateTimer(settings, el, reads) ==
  Reported(CreateElements(settings, Prepared(settings, el),
                          TimeOf(el, reads.create), reads),
           el)

\* The state of the forEach after timer i was created with result r, clock
\* being the value updateTime read.
Created(st, i, r, clock) ==
  [timers |-> [st.timers EXCEPT ![i] = r.tm],
   errors |-> st.errors + r.errors,
   threw |-> r.threw,
   now |-> clock]

\* this.$timers.forEach( createTimer ): the elements in document order,
\* every element with its own reads of the clock; an exception ends the
\* loop.
RECURSIVE ForEachTimer(_, _, _, _)
ForEachTimer(settings, st, i, reads) ==
  IF i > Len(st.timers) \/ st.threw THEN st
  ELSE ForEachTimer(settings,
                    Created(st, i,
                            CreateTimer(settings, st.timers[i], reads[i]),
                            reads[i].update),
                    i + 1, reads)

\* ------------------------------------------------------------- the inputs
\* The target of the examples: 2025-03-01T00:00:00Z.
Target == At(20148, 0)

\* The datetime attributes drawn: the target, and no parsable date.
Datetimes == { [valid |-> TRUE, at |-> Target], [valid |-> FALSE, at |-> At(0, 0)] }

\* The values new Date() returns, by distance from the target.
Before366d == At(19782, 0)          \* 2024-02-29
Before365d == At(19783, 0)          \* 2024-03-01, in a leap year
Before90d == At(20058, 0)
Before90s == At(20147, 86310000)
Before30s == At(20147, 86370000)
Before500ms == At(20147, 86399500)
After90s == At(20148, 90000)
After400d == At(20548, 0)           \* 2026

\* A page lives in one of these ranges of clock values: the constructor and
\* the callbacks read any value of the range, in any order (the value of
\* new Date() is an input of every read, and nothing in the code relates two
\* reads).
LongClock == { Before366d, Before365d, Before90d, Target, After400d }
ShortClock == { Before90s, Before30s, Before500ms, Target, After400d }
EndClock == { Before500ms, Target, After90s }
Clocks == { LongClock, ShortClock, EndClock }

\* Every clock value drawn.
Clock == UNION Clocks

\* The clock ranges drawn for the elements els.  An element without a valid
\* date takes the clock as its target, so its behaviour depends on the gaps
\* between the reads only: such a page lives around the end.
ClocksOf(els) ==
  IF \E i \in DOMAIN els : els[i].datetime.valid
  THEN { LongClock, ShortClock } ELSE { EndClock }

\* The reads of the clock of one createTimer for the element el, each any
\* value of range.  createTimer reads the clock only for an element
\* without a valid date: for the others create stands for no read.
Reads(el, range) ==
  { r \in [create : range, update : range, format : range] :
      NoTime(el.datetime) \/ r.create = r.update }

\* The reads of the clock of the consecutive calls of createTimer for the
\* elements i, i + 1, ... of els.
RECURSIVE ReadSeqs(_, _, _)
ReadSeqs(els, i, range) ==
  IF i > Len(els) THEN { << >> }
  ELSE { <<r>> \o rest : r \in Reads(els[i], range),
                           rest \in ReadSeqs(els, i + 1, range) }

Allowed(set) == [i \in 1..6 |-> i \in set]

\* The combinations of allowed units drawn.
AllowedSets ==
  { Allowed(1..6), Allowed(2..6), Allowed(1..5), Allowed({days, hours}) }

HookNames == {"onCreate", "onTick", "onEnd"}

\* Object.assign( {}, defaults, options ): the hooks are all supplied or all
\* left null.
Settings ==
  [ compact : BOOLEAN, allowNegative : BOOLEAN, padValues : BOOLEAN,
    showZeroes : BOOLEAN, allowed : AllowedSets,
    hooks : { [h \in HookNames |-> TRUE], [h \in HookNames |-> FALSE] } ]

\* ------------------------------------------- formatDiff, step by step
\* No call of formatDiff is being stepped.
NoCall ==
  [pc |-> "none", neg |-> FALSE, input |-> 0, years |-> 0, weeks |-> 0,
   days |-> 0, yearToCheck |-> 0, finalYear |-> 0]

\* The local variables of formatDiff before its first loop: days is
\* Math.floor( Math.abs( milliseconds ) / msPerDay ).
Enter(milliseconds, time, clock) ==
  [pc |-> "years", neg |-> milliseconds.neg, input |-> milliseconds.days,
   years |-> 0, weeks |-> 0, days |-> milliseconds.days,
   yearToCheck |-> GetFullYear(clock), finalYear |-> GetFullYear(time)]

\* while ( checkYear && 365 <= days )
YearCondition(f) == f.yearToCheck # f.finalYear /\ 365 <= f.days

\* A year loop whose body forgets the days of a common year.
YearBodyMutant(f) ==
  [f EXCEPT !.years = @ + 1,
            !.days = IF IsLeapYear(f.yearToCheck) THEN @ - 366 ELSE @,
            !.yearToCheck = IF f.neg THEN @ - 1 ELSE @ + 1]

\* The body of the year loop.
YearBody(f) ==
  [f EXCEPT !.years = @ + 1,
            !.days = IF IsLeapYear(f.yearToCheck) THEN @ - 366 ELSE @ - 365,
            !.yearToCheck = IF f.neg THEN @ - 1 ELSE @ + 1]

\* while ( 7 <= days )
WeekCondition(f) == 7 <= f.days

\* The body of the week loop.
WeekBody(f) ==
  [f EXCEPT !.days = @ - 7,
            !.weeks = IF 52 <= @ + 1 THEN 0 ELSE @ + 1,
            !.years = IF 52 <= f.weeks + 1 THEN @ + 1 ELSE @]

\* The day counts drawn for a stepped call: around 0, 1, 2 and 3 years.
MaxExtra == 12
DayCounts == { b + k : b \in {0, 360, 725, 1090}, k \in 0..MaxExtra }

\* The clock of a stepped call: 2024-03-01 (a leap year) and 2025-03-01.
CallClock == { At(19783, 0), At(20148, 0) }

\* The targets of a stepped call: in 2023, 2024, 2026 and 2028, whatever
\* the sign of the difference passed.
CallTargets == { At(19358, 0), At(19783, 0), At(20454, 0), At(21184, 0) }

\* ------------------------------------------------------------- the state
\* The recomputations on one element after which the host runs no further
\* callback on it.
MaxTicks == 2

\* The calls of its methods the owner of the instance makes after the
\* constructor.
MaxCalls == 1

\* The first argument of the constructor: a selector the document accepts;
\* null or undefined, which querySelectorAll converts to the string "null"
\* or "undefined" and looks up as a tag name; or a string that is no
\* selector (the empty string included), on which querySelectorAll throws a
\* SyntaxError.
Arguments == {"selector", "falsy", "invalid"}

\* The default options, with and without allowNegative, and the three
\* hooks.
PageSettings ==
  { s \in Settings :
      /\ ~s.compact /\ ~s.padValues /\ ~s.showZeroes
      /\ s.allowed = Allowed(1..6)
      /\ \A h \in HookNames : s.hooks[h] }

\* The clock of the pages whose owner calls the methods of the instance.
PageClock == { Before90s, Before30s, Target }

\* The time the owner passes to createElements and startTimer.
OwnerTimes == { Target }

\* The values the owner passes to updateDisplay.
OwnerValues == { Num(1), Num(5) }

VARIABLES
  settings,   \* this.settings
  element,    \* the first argument of the constructor
  wall,       \* the values the clock of the page takes
  budget,     \* the calls the owner makes in this behaviour
  calls,      \* the calls the owner has made
  now,        \* the value of `now` in the last run of updateTime
  timers,     \* this.$timers, each with its DOM state and its closures
  errors,     \* the number of console.error calls
  phase,      \* "new", then "constructed", or "threw" when the constructor
              \* ended by an exception
  fd          \* the local variables of a call of formatDiff run loop
              \* iteration by loop iteration

vars ==
  <<settings, element, wall, budget, calls, now, timers, errors, phase, fd>>

\* The elements the argument matches: none, one with the date of the
\* target, or one without a parsable date.
Matches == { << >> } \cup { <<Element(d)>> : d \in Datetimes }

\* The clocks of the pages whose owner calls the methods of the instance:
\* pages with the default options and an instance that was constructed.
OwnerClocks(opts, argument, els) ==
  IF opts \in PageSettings /\ argument # "invalid" /\ els # << >>
  THEN { PageClock } ELSE { }

Init ==
  /\ settings \in Settings
  /\ element \in Arguments
  /\ timers \in IF element = "invalid" THEN { << >> } ELSE Matches
  /\ wall \in ClocksOf(timers) \cup OwnerClocks(settings, element, timers)
  /\ budget = IF wall = PageClock THEN MaxCalls ELSE 0
  /\ calls = 0
  /\ now = At(0, 0)
  /\ errors = 0
  /\ phase = "new"
  /\ fd = NoCall

\* new CountdownTimer( element, options ).  querySelectorAll runs first and
\* its SyntaxError leaves the constructor; then ! element or an empty list
\* is reported by console.error and nothing is created.
Constructor ==
  /\ phase = "new"
  /\ IF element = "invalid"
     THEN /\ phase' = "threw"
          /\ UNCHANGED <<timers, errors, now>>
     ELSE IF element = "falsy" \/ 0 = Len(timers)
     THEN /\ errors' = errors + 1
          /\ phase' = "constructed"
          /\ UNCHANGED <<timers, now>>
     ELSE \E reads \in ReadSeqs(timers, 1, wall) :
            \E r \in { ForEachTimer(settings,
                                     [timers |-> timers, errors |-> errors,
                                      threw |-> FALSE, now |-> now],
                                     1, reads) } :
              /\ timers' = r.timers
              /\ errors' = r.errors
              /\ phase' = IF r.threw THEN "threw" ELSE "constructed"
              /\ now' = r.now
  /\ UNCHANGED <<settings, element, wall, budget, calls, fd>>

\* The periodic callback of closure k of timer i, run by the host: n is the
\* clock value updateTime reads and c the one formatDiff reads, each any
\* value of the clock of the page.
Tick(i, k) ==
  /\ timers[i].sessions[k].repeat = "scheduled"
  /\ Runs(timers[i]) <= MaxTicks
  /\ \E n \in wall, c \in wall :
       /\ now' = n
       /\ timers' = [timers EXCEPT ![i] = Run(settings, timers[i], k, n, c).tm]
  /\ UNCHANGED <<settings, element, wall, budget, calls, errors, phase, fd>>

\* ------------------------------------------------- the calls of the owner
\* The methods of the class are all public: the owner of a constructed
\* instance can call each of them on an element of the page.  A call is its
\* result r: the element it leaves, with the console.error calls it made
\* and the clock value its run of updateTime read.
Owned(r, reported, clock) ==
  [tm |-> r.tm, errors |-> reported, now |-> clock]

\* instance.createTimer( timer )
CreateTimerCalls(opts, el, range) ==
  { Owned(r, r.errors, r.tm.sessions[Len(r.tm.sessions)].lastNow) :
      r \in { CreateTimer(opts, el, reads) : reads \in Reads(el, range) } }

\* The reads of the clock of a call of startTimer.
StartReads(range) ==
  { r \in [create : range, update : range, format : range] :
      r.create = r.update }

\* instance.createElements( timer, time )
CreateElementsCalls(opts, el, range) ==
  { Owned(CreateElements(opts, el, time, reads), 0, reads.update) :
      time \in OwnerTimes, reads \in StartReads(range) }

\* instance.startTimer( timer, time, intervals ), intervals being the six
\* spans of an earlier createElements call on the element.
StartTimerCalls(opts, el, range) ==
  { Owned(StartTimer(opts, el, time, g, reads), 0, reads.update) :
      time \in OwnerTimes, g \in 1..Spans(el), reads \in StartReads(range) }

\* instance.updateDisplay( timer, interval, value, label ), interval being
\* a span created for the element and label the label of its unit.
UpdateDisplayCalls(el, clock) ==
  { Owned([tm |-> [el EXCEPT !.text = UpdateDisplay(el.children, @, n, value)]],
          0, clock) :
      n \in 1..Len(el.text), value \in OwnerValues }

\* The state after the call r of the owner on timer i.  An exception of the
\* call reaches the owner, not the constructor.
Called(i, r) ==
  /\ timers' = [timers EXCEPT ![i] = r.tm]
  /\ errors' = errors + r.errors
  /\ now' = r.now
  /\ calls' = calls + 1
  /\ UNCHANGED <<settings, element, wall, budget, phase, fd>>

\* The owner holds an instance and has a call left.
CanCall == phase = "constructed" /\ calls < budget

OwnerCreateTimer(i) ==
  CanCall /\ \E r \in CreateTimerCalls(settings, timers[i], wall) : Called(i, r)

OwnerCreateElements(i) ==
  /\ CanCall
  /\ \E r \in CreateElementsCalls(settings, timers[i], wall) : Called(i, r)

OwnerStartTimer(i) ==
  CanCall /\ \E r \in StartTimerCalls(settings, timers[i], wall) : Called(i, r)

OwnerUpdateDisplay(i) ==
  CanCall /\ \E r \in UpdateDisplayCalls(timers[i], now) : Called(i, r)

Next ==
  \/ Constructor
  \/ \E i \in DOMAIN timers : \E k \in DOMAIN timers[i].sessions : Tick(i, k)
  \/ \E i \in DOMAIN timers : OwnerCreateTimer(i)
  \/ \E i \in DOMAIN timers : OwnerCreateElements(i)
  \/ \E i \in DOMAIN timers : OwnerStartTimer(i)
  \/ \E i \in DOMAIN timers : OwnerUpdateDisplay(i)

Spec == Init /\ [][Next]_vars

\* ------------------------------------------------- two timers on a page
\* A second target, a minute before the first one.
EarlyTarget == At(20147, 86340000)

\* The elements of the pages: an element without date before one with a
\* date, and two elements with different targets.
PageElements ==
  { <<Element([valid |-> FALSE, at |-> At(0, 0)]),
      Element([valid |-> TRUE, at |-> Target])>>,
    <<Element([valid |-> TRUE, at |-> EarlyTarget]),
      Element([valid |-> TRUE, at |-> Target])>> }

\* The clock of the pages with two timers.
PairClock == { Before30s, Target }

InitPage ==
  /\ settings \in PageSettings
  /\ element = "selector"
  /\ timers \in PageElements
  /\ wall = PairClock
  /\ budget = MaxCalls
  /\ calls = 0
  /\ now = At(0, 0)
  /\ errors = 0
  /\ phase = "new"
  /\ fd = NoCall

\* A page whose selector matches two elements.
SpecPage == InitPage /\ [][Next]_vars

\* ------------------------------------------ the loops of formatDiff
InitFormatDiff ==
  /\ settings \in PageSettings
  /\ element = "selector"
  /\ wall = CallClock
  /\ budget = 0
  /\ calls = 0
  /\ now \in CallClock
  /\ timers = << >>
  /\ errors = 0
  /\ phase = "new"
  /\ fd \in { Enter([neg |-> n, days |-> d, ms |-> 0], t, now) :
                n \in BOOLEAN, d \in DayCounts, t \in CallTargets }

\* One iteration of the year loop.
YearStep ==
  /\ fd.pc = "years" /\ YearCondition(fd)
  /\ fd' = YearBody(fd)
  /\ UNCHANGED <<settings, element, wall, budget, calls, now, timers, errors, phase>>

\* The year loop ends.
YearExit ==
  /\ fd.pc = "years" /\ ~YearCondition(fd)
  /\ fd' = [fd EXCEPT !.pc = "weeks"]
  /\ UNCHANGED <<settings, element, wall, budget, calls, now, timers, errors, phase>>

\* One iteration of the week loop.
WeekStep ==
  /\ fd.pc = "weeks" /\ WeekCondition(fd)
  /\ fd' = WeekBody(fd)
  /\ UNCHANGED <<settings, element, wall, budget, calls, now, timers, errors, phase>>

\* The week loop ends and formatDiff returns.
WeekExit ==
  /\ fd.pc = "weeks" /\ ~WeekCondition(fd)
  /\ fd' = [fd EXCEPT !.pc = "done"]
  /\ UNCHANGED <<settings, element, wall, budget, calls, now, timers, errors, phase>>

NextFormatDiff == YearStep \/ YearExit \/ WeekStep \/ WeekExit

\* A call of formatDiff runs on until it returns.
SpecFormatDiff ==
  InitFormatDiff /\ [][NextFormatDiff]_vars /\ WF_vars(NextFormatDiff)

\* ============================================================ properties
\* The spans among the children, in document order.
Units(children) == SelectSeq(children, LAMBDA x : x # Sep)

\* The number of entries of a log that record the given hook.
Count(log, hook) == Cardinality({k \in 1..Len(log) : log[k].hook = hook})

\* The numeric values of a breakdown.
Values(parsedDiff) == [i \in 1..6 |-> parsedDiff[i].n]

\* The most significant unit with a value above zero, or undefined.
Highest(vals) ==
  IF \E i \in 1..6 : vals[i] > 0
  THEN CHOOSE i \in 1..6 : vals[i] > 0 /\ \A j \in 1..(i - 1) : vals[j] <= 0
  ELSE undefined

AllAllowed == \A u \in 1..6 : settings.allowed[u]

\* An element no call of startTimer has been made on, as a closure reads
\* it.
NoSession(el) ==
  [datetime |-> el.datetime, created |-> el.created, time |-> At(0, 0),
   children |-> el.children, ariaHidden |-> [u \in 1..6 |-> "null"],
   ariaLive |-> el.ariaLive, text |-> [u \in 1..6 |-> NoText],
   parsedDiff |-> << >>, highestNonzero |-> undefined,
   diff |-> [neg |-> FALSE, days |-> 0, ms |-> 0], lastNow |-> At(0, 0),
   runs |-> 0, repeat |-> "uninitialized", log |-> el.log]

\* The element with its first closure, the one the constructor starts.
First(el) ==
  IF el.sessions = << >> THEN NoSession(el) ELSE Closure(el, el.sessions[1])

\* Timer i, before and after a step.
Timer(i) == First(timers[i])
TimerNext(i) == First(timers'[i])

\* Closure k of timer i after a step.
OfNext(i, k) == Closure(timers'[i], timers'[i].sessions[k])

\* The step runs updateTime in closure k of timer i: a callback of the
\* closure, or the first run of a closure the step starts.
RunsIn(i, k) ==
  IF k \in DOMAIN timers[i].sessions
  THEN timers'[i].sessions[k].runs = timers[i].sessions[k].runs + 1
  ELSE k \in DOMAIN timers'[i].sessions

\* The owner has called no method of the instance: the constructor and the
\* callbacks alone have acted.
Plain == calls = 0

\* Timer i has been created and has recomputed at least once.
Ran(i) == Timer(i).created /\ Timer(i).runs >= 1

\* Timer i has recomputed, the constructor returned normally and the owner
\* has called no method.
Completed(i) == Plain /\ Ran(i) /\ phase = "constructed"

\* The last recomputation of timer i observed delta <= 0 with
\* allowNegative = false.
Terminal(i) == Ran(i) /\ ~settings.allowNegative /\ LeqZero(Timer(i).diff)

\* C1: once a tick of a timer with allowNegative = false has observed
\* delta <= 0 (the first, synchronous recomputation included), the periodic
\* recomputation is stopped and onEnd has been invoked exactly once.
C1_OnEndExactlyOnce ==
  \A i \in DOMAIN timers :
    (Plain /\ Terminal(i) /\ settings.hooks["onEnd"]) =>
       /\ Timer(i).repeat # "scheduled"
       /\ Count(Timer(i).log, "onEnd") = 1

\* C2: per timer the hooks fire in the order onCreate, onTick*, onEnd:
\* onCreate exactly once and before the first recomputation, onEnd at most
\* once, and neither a recomputation nor an onTick after onEnd.
C2_HookOrder ==
  \A i \in DOMAIN timers :
    (Timer(i).created /\ \A h \in HookNames : settings.hooks[h]) =>
      LET log == Timer(i).log IN
        /\ Len(log) >= 1 /\ log[1].hook = "onCreate"
        /\ Count(log, "onCreate") = 1
        /\ Count(log, "onEnd") <= 1
        /\ \A k \in 1..Len(log) : log[k].hook = "onEnd" => k = Len(log)
        /\ \A k \in 1..Len(log) :
             log[k].hook = "onTick" => (k > 2 /\ log[k - 1].hook = "updateTime")

\* C3: a timer created from an absent or unparsable datetime, with
\* allowNegative = false, takes the current time as target, reports an
\* error, and no exception reaches the caller of the constructor.
C3_InvalidDateNoException ==
  \A i \in DOMAIN timers :
    (/\ Plain /\ Timer(i).created
     /\ ~Timer(i).datetime.valid /\ ~settings.allowNegative) =>
       /\ errors >= 1
       /\ phase # "threw"

\* C4: a unit with allowed = false is never among the children of the
\* timer.
C4_DisallowedNeverRendered ==
  \A i \in DOMAIN timers : \A u \in 1..6 :
    (Completed(i) /\ ~settings.allowed[u]) => ~Contains(Timer(i).children, u)

\* C5: with all units allowed, the rendered units are in the order years,
\* weeks, days, hours, minutes, seconds.
C5_DescendingOrder ==
  \A i \in DOMAIN timers :
    (Completed(i) /\ AllAllowed) =>
      LET us == Units(Timer(i).children) IN
        \A a, b \in 1..Len(us) : a < b => us[a] < us[b]

\* C6: every breakdown computed has years >= 0, weeks in 0..51, days in
\* 0..6, hours in 0..23, minutes and seconds in 0..59.
C6_BreakdownRanges ==
  \A i \in DOMAIN timers :
    Completed(i) =>
      LET v == Values(Timer(i).parsedDiff) IN
        /\ v[years] >= 0
        /\ v[weeks] \in 0..51
        /\ v[days] \in 0..6
        /\ v[hours] \in 0..23
        /\ v[minutes] \in 0..59
        /\ v[seconds] \in 0..59

\* C7: after every tick aria-live is "polite" when seconds are the highest
\* nonzero unit or the seconds value is 0, and "off" otherwise.
C7_LiveRegionPolicy ==
  \A i \in DOMAIN timers :
    Completed(i) =>
      LET v == Values(Timer(i).parsedDiff) IN
        Timer(i).ariaLive =
          IF Highest(v) = seconds \/ v[seconds] = 0 THEN "polite" ELSE "off"

\* The last allowed unit.
LastAllowed == CHOOSE u \in 1..6 :
                 settings.allowed[u] /\ \A w \in (u + 1)..6 : ~settings.allowed[w]

\* C8: with compact = true and all units allowed, after every tick the
\* children are exactly one unit, the highest nonzero one or the last
\* allowed one when every value is zero, and no separator.
C8_CompactSingleUnit ==
  \A i \in DOMAIN timers :
    (Completed(i) /\ settings.compact /\ AllAllowed) =>
      LET h == Highest(Values(Timer(i).parsedDiff)) IN
        Timer(i).children = << IF h = undefined THEN LastAllowed ELSE h >>

\* C9 as stated: with all units allowed, whenever a unit above seconds is
\* the highest nonzero one, the seconds unit is rendered with aria-hidden
\* "false".
C9_SecondsNeverHidden ==
  \A i \in DOMAIN timers :
    (Completed(i) /\ AllAllowed /\ ~settings.compact
       /\ Highest(Values(Timer(i).parsedDiff)) \in 1..5) =>
       /\ Contains(Timer(i).children, seconds)
       /\ Timer(i).ariaHidden[seconds] = "false"

\* A timer the constructor created and the owner left alone: the seconds
\* unit is rendered, with aria-hidden "true" after the first recomputation
\* unless seconds are the highest nonzero unit.
C9_SecondsStateRule ==
  \A i \in DOMAIN timers :
    (Plain /\ Ran(i) /\ AllAllowed /\ ~settings.compact) =>
       /\ Contains(Timer(i).children, seconds)
       /\ Timer(i).runs = 1 =>
            Timer(i).ariaHidden[seconds] =
              IF Highest(Values(Timer(i).parsedDiff)) = seconds
              THEN "false" ELSE "true"

\* The step runs updateTime in a closure of timer i that holds the spans of
\* the g-th call of createElements, and seconds are the highest nonzero
\* unit of its breakdown.
Unhides(i, g) ==
  \E k \in DOMAIN timers'[i].sessions :
    /\ RunsIn(i, k)
    /\ timers'[i].sessions[k].spans = g
    /\ Highest(Values(timers'[i].sessions[k].parsedDiff)) = seconds

\* The step runs updateTime in a closure of timer i that holds the spans of
\* the g-th call of createElements, whose seconds span is new or was among
\* the children.
KeepsSeconds(i, g) ==
  \E k \in DOMAIN timers'[i].sessions :
    /\ RunsIn(i, k)
    /\ timers'[i].sessions[k].spans = g
    /\ \/ g > Spans(timers[i])
       \/ Contains(timers[i].children, Node(g, seconds))

\* Every step of the program, the calls of the owner included, on every
\* seconds span of timer i: aria-hidden is "true" on a new span, becomes
\* "false" when a recomputation on the span has seconds as the highest
\* nonzero unit and is left alone otherwise; and with all units allowed
\* and compact = false a recomputation leaves its seconds span among the
\* children.
C9_SecondsStepRule ==
  \A i \in DOMAIN timers : \A g \in 1..Spans(timers'[i]) :
    /\ timers'[i].ariaHidden[Node(g, seconds)] =
         IF Unhides(i, g) THEN "false"
         ELSE IF g <= Spans(timers[i])
              THEN timers[i].ariaHidden[Node(g, seconds)]
              ELSE "true"
    /\ (AllAllowed /\ ~settings.compact /\ KeepsSeconds(i, g)) =>
         Contains(timers'[i].children, Node(g, seconds))

\* C9 (amended): with all units allowed and compact = false, createElements
\* renders the seconds unit with aria-hidden "true" and no recomputation
\* removes its seconds unit; a recomputation sets aria-hidden of its
\* seconds unit to "false" exactly when seconds are the highest nonzero
\* unit, and nothing sets it back to "true".  On a timer the constructor
\* created and the owner left alone the seconds unit is therefore rendered
\* after every tick, and hidden after the first recomputation unless
\* seconds are the highest nonzero unit.
C9_SecondsHiddenUntilHighest ==
  [] C9_SecondsStateRule /\ [][C9_SecondsStepRule]_vars

\* Breakdown [0,0,0,0,1,30] on a count-down: seconds rendered and hidden.
C9_Witness ==
  \E i \in DOMAIN timers :
    /\ Ran(i) /\ AllAllowed /\ ~settings.compact
    /\ ~Timer(i).diff.neg
    /\ Values(Timer(i).parsedDiff) = <<0, 0, 0, 0, 1, 30>>
    /\ Contains(Timer(i).children, seconds)
    /\ Timer(i).ariaHidden[seconds] = "true"

\* Every rendered unit of timer i shows the number 0.
AllZero(i) ==
  \A u \in 1..6 :
    Contains(Timer(i).children, u) =>
      (Timer(i).text[u].shown /\ Timer(i).text[u].value = Num(0))

C10_TerminalState ==
  \A i \in DOMAIN timers :
    Terminal(i) => (AllZero(i) /\ Timer(i).repeat # "scheduled")

\* What timer i displays: the children and the text of the units.
Displayed(tm) == [children |-> tm.children, text |-> tm.text]

C10_TerminalStep ==
  \A i \in DOMAIN timers :
    Terminal(i) =>
      /\ Displayed(TimerNext(i)) = Displayed(Timer(i))
      /\ TimerNext(i).repeat # "scheduled"

C11_LabelByValue ==
  \A i \in DOMAIN timers : \A u \in 1..6 :
    (Completed(i) /\ Contains(Timer(i).children, u)
       /\ Timer(i).text[u].shown /\ Timer(i).text[u].value.n >= 0) =>
       Timer(i).text[u].units =
         IF Timer(i).text[u].value.n = 1 THEN "singular" ELSE "plural"

\* The display state of a timer: the children, the aria-hidden attributes
\* and the aria-live attribute.
DisplayState(tm) ==
  [children |-> tm.children, ariaHidden |-> tm.ariaHidden,
   ariaLive |-> tm.ariaLive]

\* The display state a tick with the breakdown parsedDiff produces on a
\* timer whose elements were just created.
FreshDisplay(parsedDiff) ==
  DisplayState(Resolve(settings,
                       Closure(WithSpans(settings,
                                         Element([valid |-> TRUE,
                                                  at |-> Target])),
                               Session(Target, 1)),
                       now, Minus(now, now), parsedDiff,
                       Find(settings, parsedDiff, 1,
                            [children |-> Fragment(settings, 1),
                             ariaHidden |-> InitialAriaHidden,
                             highestNonzero |-> undefined])))

\* C12: the display state after a tick depends only on the breakdown of
\* that tick, the unit configuration and the options: it equals the state
\* the same breakdown produces as the first tick of a timer with the same
\* settings, whatever the earlier ticks rendered.
C12_HistoryIndependent ==
  \A i \in DOMAIN timers :
    (Completed(i) /\ AllAllowed /\ ~Terminal(i)) =>
       DisplayState(Timer(i)) = FreshDisplay(Timer(i).parsedDiff)

\* C13: of two timers created by one constructor call, neither prevents
\* the other from being created nor from ticking: once the constructor has
\* ended every matched element is a timer, and every timer that has not
\* reached its own terminal tick has its periodic callback scheduled.
C13_TimersIndependent ==
  (Plain /\ phase # "new") =>
    \A i \in DOMAIN timers :
      /\ Timer(i).created
      /\ ~Terminal(i) => Timer(i).repeat = "scheduled"

\* What the calls the owner can make on timer i leave: createTimer,
\* createElements, startTimer and updateDisplay are the methods of the
\* instance.
OwnerCalls(i) ==
  CreateTimerCalls(settings, timers[i], wall)
    \cup CreateElementsCalls(settings, timers[i], wall)
    \cup StartTimerCalls(settings, timers[i], wall)
    \cup UpdateDisplayCalls(timers[i], now)

\* Some call of the owner stops the periodic callback of timer i.
CanCancel(i) ==
  \E r \in OwnerCalls(i) : First(r.tm).repeat # "scheduled"

\* C14: the owner of a running timer can cancel it: in every state with a
\* scheduled callback some call the owner can make stops that callback.
C14_OwnerCanCancel ==
  \A i \in DOMAIN timers :
    (Completed(i) /\ Timer(i).repeat = "scheduled") => CanCancel(i)

\* The units from h through seconds, in order, with one separator between
\* each adjacent pair.
RECURSIVE FromUnit(_)
FromUnit(h) ==
  IF h >= seconds THEN <<seconds>> ELSE <<h, Sep>> \o FromUnit(h + 1)

\* The unit the rendered sequence of the timer tm starts with: the highest
\* nonzero unit of the breakdown, or seconds when every value is zero.
FirstShown(tm) ==
  IF Highest(Values(tm.parsedDiff)) = undefined
  THEN seconds ELSE Highest(Values(tm.parsedDiff))

\* The last recomputation of tm observed a positive delta under the options
\* of the claim.
CountsDown(tm) ==
  /\ tm.created /\ tm.runs >= 1
  /\ AllAllowed /\ ~settings.compact /\ ~settings.showZeroes
  /\ ~LeqZero(tm.diff)

\* The children are the units from the first shown one through seconds.
FromHighest(tm) == tm.children = FromUnit(FirstShown(tm))

\* The positive delta a is not above the positive delta b.
NotAbove(a, b) == a.days < b.days \/ (a.days = b.days /\ a.ms <= b.ms)

\* The first recomputation of a timer, run by the constructor.
C15_First ==
  \A i \in DOMAIN timers :
    (CountsDown(Timer(i)) /\ Timer(i).runs = 1) => FromHighest(Timer(i))

\* A tick on which the positive delta has not grown keeps the form.
C15_Tick ==
  \A i \in DOMAIN timers :
    (/\ CountsDown(Timer(i)) /\ FromHighest(Timer(i))
     /\ TimerNext(i).runs = Timer(i).runs + 1
     /\ CountsDown(TimerNext(i))
     /\ NotAbove(TimerNext(i).diff, Timer(i).diff))
    => FromHighest(TimerNext(i))

\* C15: with all six units allowed, compact = false, showZeroes = false and
\* a positive delta that decreases from tick to tick, after every tick the
\* children of the timer are exactly the units from the highest nonzero unit
\* (seconds alone when every value is zero) through seconds, in order, one
\* separator between each adjacent pair and no leading, trailing or doubled
\* separator: the first recomputation renders that form, and every tick
\* whose delta is positive and not above the previous one keeps it.
C15_RenderedFromHighest == [] C15_First /\ [][C15_Tick]_vars

\* C16 (all units allowed, compact = false, a valid date): after any
\* sequence of ticks a rendered unit other than seconds has
\* aria-hidden "true" only if its current value is zero and no more
\* significant unit is nonzero; a unit with a value above 0 is never
\* accessibility-hidden.
C16_HiddenOnlyLeadingZero ==
  \A i \in DOMAIN timers :
    (/\ Plain /\ Ran(i) /\ ~Terminal(i) /\ Timer(i).datetime.valid
     /\ AllAllowed /\ ~settings.compact) =>
      \A u \in 1..5 :
        (Contains(Timer(i).children, u) /\ Timer(i).ariaHidden[u] = "true")
        => /\ Timer(i).parsedDiff[u].n = 0
           /\ \A v \in 1..(u - 1) : Timer(i).parsedDiff[v].n = 0

\* C17: after the first recomputation and after every later tick, with at
\* least one unit allowed, the rendered sequence is non-empty: at least one
\* unit is a child of the timer.
C17_RenderedNonEmpty ==
  \A i \in DOMAIN timers :
    (/\ Plain /\ Ran(i) /\ Timer(i).datetime.valid
     /\ \E u \in 1..6 : settings.allowed[u])
    => Units(Timer(i).children) # << >>

\* What a recomputation leaves in the closure tm: every rendered unit of
\* the closure carries the value of the breakdown of |delta|.
ShowsBreakdown(tm) ==
  /\ tm.diff = Minus(tm.time, tm.lastNow)
  /\ \E c \in wall : tm.parsedDiff = FormatDiff(settings, tm.diff, tm.time, c)
  /\ \A u \in 1..6 :
       Contains(tm.children, u) =>
         /\ tm.text[u].shown
         /\ tm.text[u].value = tm.parsedDiff[u]

\* What a recomputation reports from the closure tm: onTick, when set, is
\* the last hook invoked, with isNegative true exactly when the target is
\* before the clock value of the recomputation.
ReportsTick(tm) ==
  settings.hooks["onTick"] =>
    /\ tm.log[Len(tm.log)].hook = "onTick"
    /\ tm.log[Len(tm.log)].isNegative = Before(tm.time, tm.lastNow)

\* Every closure of every timer that has recomputed is scheduled, onEnd has
\* never been invoked and onTick, when set, has been invoked once per
\* recomputation.
C18_Running ==
  \A i \in DOMAIN timers :
    (settings.allowNegative /\ timers[i].sessions # << >>) =>
      /\ phase = "constructed"
      /\ \A k \in DOMAIN timers[i].sessions :
           timers[i].sessions[k].repeat = "scheduled"
      /\ Count(timers[i].log, "onEnd") = 0
      /\ Count(timers[i].log, "onTick") =
           IF settings.hooks["onTick"] THEN Runs(timers[i]) ELSE 0

\* Every step that runs updateTime in a closure leaves the units of the
\* closure showing the breakdown of |delta| and has reported it to onTick.
C18_Tick ==
  \A i \in DOMAIN timers : \A k \in DOMAIN timers'[i].sessions :
    (settings.allowNegative /\ RunsIn(i, k)) =>
      /\ ShowsBreakdown(OfNext(i, k))
      /\ ReportsTick(OfNext(i, k))

\* C18: with allowNegative = true a timer never terminates: after every
\* tick, whether delta is positive, zero or negative, the constructor has
\* returned normally and the periodic callback is scheduled, onEnd has never
\* been invoked, the units display the breakdown of |delta|, and onTick has
\* been invoked once per tick with isNegative true exactly when delta < 0.
\* This holds of every closure of the timer, those the owner starts
\* included.
C18_NeverTerminates == [] C18_Running /\ [][C18_Tick]_vars

\* A timer with allowNegative = true and the hooks set that has ticked
\* before the target, and then at and after it.
C18_Witness ==
  \E i \in DOMAIN timers :
    /\ settings.allowNegative /\ settings.hooks["onTick"]
    /\ settings.hooks["onEnd"]
    /\ Timer(i).datetime.valid
    /\ Timer(i).runs >= 3
    /\ Timer(i).diff.neg
    /\ Timer(i).repeat = "scheduled"
    /\ \E k \in 1..Len(Timer(i).log) :
         /\ Timer(i).log[k].hook = "onTick"
         /\ ~Timer(i).log[k].isNegative
    /\ Timer(i).log[Len(Timer(i).log)].isNegative

\* A step that is one iteration of the year loop or of the week loop.
Iteration == fd.pc \in {"years", "weeks"} /\ fd'.pc = fd.pc /\ fd' # fd

\* Every iteration of either loop leaves strictly fewer remaining days.
C19_DaysDecrease == Iteration => fd'.days < fd.days

\* C19: for every delta, target and current time, the inputs where the sign
\* of delta moves the cursor year away from the year of the target
\* included, the year loop and the week loop of formatDiff terminate (the
\* call returns), and the remaining day count strictly decreases on every
\* iteration.
C19_LoopsTerminate == <>(fd.pc = "done") /\ [][C19_DaysDecrease]_vars

\* A call that returned after the year loop ran at least twice with the
\* cursor year moving away from the year of the target, and the week loop
\* ran too.
C19_Witness ==
  /\ fd.pc = "done"
  /\ fd.neg
  /\ fd.finalYear > GetFullYear(now)
  /\ fd.yearToCheck < GetFullYear(now) - 1
  /\ fd.years >= 2
  /\ fd.weeks >= 1

\* The decomposition of a delta below 364 whole days: no year, the whole
\* weeks and the days left of D whole days, and the hours, minutes and
\* seconds of the rest, truncated to whole seconds.
Decomposed(diff) ==
  << 0, diff.days \div 7, diff.days % 7,
     diff.ms \div msPerHour,
     (diff.ms % msPerHour) \div msPerMinute,
     (diff.ms % msPerMinute) \div msPerSecond >>

\* Deltas below 364 days beside those the clock of the timers produces: the
\* last day before a first week, a whole week and 363 days, with no rest
\* and with a rest of one millisecond less than a day, of both signs.
ShortDeltas ==
  { [neg |-> n, days |-> d, ms |-> m] :
      n \in BOOLEAN, d \in {6, 7, 363}, m \in {0, msPerDay - 1} }

\* formatDiff on the deltas below 364 days: on ShortDeltas under every
\* setting of the initial states and every clock value, and on the delta of
\* the last recomputation of every closure.
C20_Breakdown ==
  /\ phase = "new" =>
       \A d \in ShortDeltas, c \in Clock :
         Values(FormatDiff(settings, d, Target, c)) = Decomposed(d)
  /\ \A i \in DOMAIN timers : \A k \in DOMAIN timers[i].sessions :
       timers[i].sessions[k].diff.days < 364 =>
         Values(timers[i].sessions[k].parsedDiff)
           = Decomposed(timers[i].sessions[k].diff)

\* A recomputation with a delta below 364 days and showZeroes = false
\* leaves the years unit of its closure out of the children.
C20_Tick ==
  \A i \in DOMAIN timers : \A k \in DOMAIN timers'[i].sessions :
    (/\ RunsIn(i, k) /\ ~settings.showZeroes
     /\ timers'[i].sessions[k].diff.days < 364) =>
      ~Contains(OfNext(i, k).children, years)

\* C20: for every delta with |delta| below 364 whole days formatDiff
\* returns years = 0, weeks = floor(D / 7), days = D mod 7 and the hours,
\* minutes and seconds of |delta| mod 86400000 (90 days gives 12 weeks and
\* 6 days); with showZeroes = false the years unit is not among the
\* children after a tick with such a delta.
C20_ShortDelta == [] C20_Breakdown /\ [][C20_Tick]_vars

\* A tick 90 days before the target with every unit allowed: 12 weeks and
\* 6 days, and the years unit removed.
C20_Witness ==
  \E i \in DOMAIN timers :
    /\ Ran(i) /\ AllAllowed /\ ~settings.showZeroes
    /\ Timer(i).diff = [neg |-> FALSE, days |-> 90, ms |-> 0]
    /\ Values(Timer(i).parsedDiff) = <<0, 12, 6, 0, 0, 0>>
    /\ ~Contains(Timer(i).children, years)
    /\ Contains(Timer(i).children, weeks)

============================================================================
